---------------------------- MODULE Spec2Model ----------------------------
(***************************************************************************)
(* A model of social_contract_app/app/main.py: a Flask application with    *)
(* one view, home, bound to "/", and a development-server entry point.     *)
(*                                                                         *)
(* The module's statements are executed one per step (pc), after which     *)
(* requests are received and handled.  The meaning of the Flask calls the  *)
(* module makes (Flask(__name__), app.route, render_template_string,       *)
(* app.run, and the WSGI dispatch of a request against the URL map) is the *)
(* framework's behaviour for exactly the arguments main.py passes.         *)
(*                                                                         *)
(* A path is the sequence of its segments: "/" is << >>, "/nope" is        *)
(* <<"nope">>, "/static/x" is <<"static", "x">>.  A text (template source, *)
(* response body) is the sequence of its pieces; their concatenation is    *)
(* the text.                                                               *)
(***************************************************************************)
EXTENDS Naturals, Sequences, FiniteSets, TLC

VARIABLES
    name,          \* __name__ of the module: "__main__" or its import name
    pc,            \* the module-level statement to execute next
    app,           \* the application object bound to the name app
    listening,     \* the development server is accepting requests
    pending,       \* requests received and not yet answered
    nreq,          \* number of requests received so far
    log            \* the requests answered, in order, with their responses

vars == <<name, pc, app, listening, pending, nreq, log>>

\* Total number of requests received in a run: over all the requests, and
\* over the sample of them.
MaxRequests == 2

MaxLongRequests == 3

---------------------------------------------------------------------------
(* Requests *)

Methods == {"GET", "HEAD", "OPTIONS", "POST", "PUT", "DELETE", "PATCH"}

RootPath == << >>

Paths == {RootPath, <<"nope">>, <<"static", "x">>}

\* The query string of a request, as the view sees it in request.args.
QueryStrings == {"", "name=x"}

\* Only home is given a query string to read; the other paths are
\* requested without one.
Requests ==
    {r \in [method : Methods, path : Paths, args : QueryStrings] :
        r.args = "" \/ r.path = RootPath}

Request(method, path, args) == [method |-> method, path |-> path, args |-> args]

SampleRequests ==
    { Request("GET", RootPath, ""), Request("GET", RootPath, "name=x"),
      Request("HEAD", RootPath, ""), Request("POST", RootPath, ""),
      Request("GET", <<"nope">>, ""), Request("POST", <<"static", "x">>, "") }

---------------------------------------------------------------------------
(* render_template_string, as home calls it *)

\* The pieces of a template source that the template lexer reads as an
\* expression to substitute, with the context variable each one names.
Expressions == {"{{ request.args }}"}

\* Rendering: pieces outside the delimiters are copied, an expression is
\* replaced by its value in the context, and one trailing newline of the
\* source is dropped (keep_trailing_newline is off by default).
RenderPiece(piece, context) ==
    IF piece \in Expressions THEN context.request_args ELSE piece

StripTrailingNewline(source) ==
    IF Len(source) > 0 /\ source[Len(source)] = "\n"
    THEN SubSeq(source, 1, Len(source) - 1)
    ELSE source

render_template_string(source, context) ==
    LET kept == StripTrailingNewline(source)
    IN  [i \in 1..Len(kept) |-> RenderPiece(kept[i], context)]

\* The string literal of home, lines 10-15, indentation included.
Indent == "        "

HomeLiteral ==
    << "\n", Indent, "<!doctype html>",
       "\n", Indent, "<title>", "Social Contract App", "</title>",
       "\n", Indent, "<h1>", "Social Contract App", "</h1>",
       "\n", Indent, "<p>", "Build your features here.", "</p>",
       "\n", Indent >>

\* Mutants of home: a template that echoes the query string, a page without
\* its paragraph, and a view that returns a dict instead of a string.
home_echo(context) ==
    [type |-> "str",
     value |-> render_template_string(
                   HomeLiteral \o <<"{{ request.args }}">>, context)]

home_no_paragraph(context) ==
    [type |-> "str",
     value |-> render_template_string(SubSeq(HomeLiteral, 1, 13), context)]

home_dict(context) ==
    [type |-> "dict", value |-> HomeLiteral]

\* The view: returns the rendered literal, a str.
home(context) ==
    [type |-> "str", value |-> render_template_string(HomeLiteral, context)]

---------------------------------------------------------------------------
(* The application object *)

\* The name app before line 3 has run.
NoApp ==
    [url_map |-> {}, view_functions |-> << >>, debug |-> FALSE,
     got_first_request |-> FALSE, jinja_env |-> FALSE]

\* The methods a rule answers: those given, HEAD whenever GET is among
\* them, and OPTIONS, answered automatically unless given explicitly.
RuleMethods(methods) ==
    methods \cup (IF "GET" \in methods THEN {"HEAD"} ELSE {}) \cup {"OPTIONS"}

Rule(rule, endpoint, methods) ==
    [rule |-> rule, endpoint |-> endpoint,
     methods |-> RuleMethods(methods),
     provide_automatic_options |-> "OPTIONS" \notin methods]

\* A <path:...> converter: matches one or more remaining segments.
PathConverter == "<path:filename>"

\* Flask(__name__): an application whose URL map holds only the built-in
\* rule for static files, /static/<path:filename>; debug is off.
Flask(import_name) ==
    [url_map |-> {Rule(<<"static", PathConverter>>, "static", {"GET"})},
     view_functions |-> ("static" :> "send_static_file"),
     debug |-> FALSE,
     got_first_request |-> FALSE,
     jinja_env |-> FALSE]

\* Mutants of route: the view bound to "/home", bound to "/" for GET and
\* POST, and not bound at all.
route_unbound(a, rule, view) == a

\* Mutant of route: the view bound to every path below "/".
route_catch_all(a, rule, view) ==
    [a EXCEPT !.url_map = @ \cup {Rule(<<PathConverter>>, view, {"GET"})},
              !.view_functions = (view :> view) @@ @]

route_home_path(a, rule, view) ==
    [a EXCEPT !.url_map = @ \cup {Rule(<<"home">>, view, {"GET"})},
              !.view_functions = (view :> view) @@ @]

route_with_post(a, rule, view) ==
    [a EXCEPT !.url_map = @ \cup {Rule(rule, view, {"GET", "POST"})},
              !.view_functions = (view :> view) @@ @]

\* @app.route(rule) applied to a view: the rule is added for the default
\* method GET, under the endpoint named after the view.
route(a, rule, view) ==
    [a EXCEPT !.url_map = @ \cup {Rule(rule, view, {"GET"})},
              !.view_functions = (view :> view) @@ @]

\* The rules main.py itself registered: all but the built-in static rule.
AppRoutes(a) ==
    {<<r.rule, a.view_functions[r.endpoint]>> :
        r \in {q \in a.url_map : q.endpoint # "static"}}

---------------------------------------------------------------------------
(* Dispatch of one request *)

\* Whether a rule matches a path: segment by segment, a path converter
\* taking all the segments that remain, of which there is at least one.
MatchRule(rule, path) ==
    IF Len(rule) > 0 /\ rule[Len(rule)] = PathConverter
    THEN /\ Len(path) >= Len(rule)
         /\ \A i \in 1..(Len(rule) - 1) : rule[i] = path[i]
    ELSE rule = path

Response(status, mimetype, body, allow) ==
    [status |-> status, mimetype |-> mimetype, body |-> body, allow |-> allow]

\* The framework's default pages for errors raised while routing.
NotFound == Response(404, "text/html", <<"<title>", "404 Not Found", "</title>">>, {})

MethodNotAllowed(valid_methods) ==
    Response(405, "text/html",
             <<"<title>", "405 Method Not Allowed", "</title>">>, valid_methods)

\* The response made from a view's return value: a str becomes a 200 with
\* the default mimetype text/html, a dict a 200 JSON response.
make_response(rv) ==
    IF rv.type = "str"
    THEN Response(200, "text/html", rv.value, {})
    ELSE Response(200, "application/json", rv.value, {})

\* The files of the static folder, app/static: the source tree has none.
StaticFiles == {}

\* The built-in static view: the file if there is one, else not found.
send_static_file(filename, files) ==
    IF filename \in files
    THEN Response(200, "application/octet-stream", <<filename>>, {})
    ELSE NotFound

\* The application called with one request: the URL map is matched on the
\* path and then on the method, the view of the matching rule is run and
\* its return value made into the response.  The result is the application
\* object after the call, the response, and the views that were run.
full_dispatch_request(a, req, files) ==
    LET matching == {r \in a.url_map : MatchRule(r.rule, req.path)}
        allowed  == {r \in matching : req.method \in r.methods}
        first    == [a EXCEPT !.got_first_request = TRUE]
        headless(resp) ==
            IF req.method = "HEAD" THEN [resp EXCEPT !.body = << >>] ELSE resp
    IN  IF matching = {}
        THEN [app |-> first, resp |-> NotFound, ran |-> {}]
        ELSE IF allowed = {}
        THEN [app |-> first,
              resp |-> MethodNotAllowed(UNION {r.methods : r \in matching}),
              ran |-> {}]
        ELSE LET r == CHOOSE q \in allowed : TRUE
                 view == a.view_functions[r.endpoint]
             IN  IF req.method = "OPTIONS" /\ r.provide_automatic_options
                 THEN [app |-> first,
                       resp |-> Response(200, "text/html", << >>, r.methods),
                       ran |-> {}]
                 ELSE IF view = "home"
                 THEN [app |-> [first EXCEPT !.jinja_env = TRUE],
                       resp |-> headless(make_response(
                                    home([request_args |-> req.args]))),
                       ran |-> {"home"}]
                 ELSE [app |-> first,
                       resp |-> headless(send_static_file(
                                    req.path[Len(req.path)], files)),
                       ran |-> {"send_static_file"}]

\* Mutant of wsgi_app: a request that ends in an error response leaves the
\* URL map empty.
wsgi_app_forgetful(a, req, files) ==
    LET result == full_dispatch_request(a, req, files)
    IN  IF result.resp.status >= 400
        THEN [result EXCEPT !.app.url_map = {}]
        ELSE result

\* app as the WSGI callable the server (or the importer) calls per request.
wsgi_app(a, req, files) == full_dispatch_request(a, req, files)

---------------------------------------------------------------------------
(* The module's statements and the serving of requests *)

Init ==
    /\ name \in {"__main__", "app.main"}
    /\ pc = "line1"
    /\ app = NoApp
    /\ listening = FALSE
    /\ pending = {}
    /\ nreq = 0
    /\ log = << >>

\* Line 1: from flask import Flask, render_template_string
ImportFlask ==
    /\ pc = "line1"
    /\ pc' = "line3"
    /\ UNCHANGED <<name, app, listening, pending, nreq, log>>

\* Line 3: app = Flask(__name__)
CreateApp ==
    /\ pc = "line3"
    /\ app' = Flask(name)
    /\ pc' = "line6"
    /\ UNCHANGED <<name, listening, pending, nreq, log>>

\* Lines 6-7: @app.route("/") def home(): ...
RegisterHome ==
    /\ pc = "line6"
    /\ app' = route(app, RootPath, "home")
    /\ pc' = "line19"
    /\ UNCHANGED <<name, listening, pending, nreq, log>>

\* Mutant of IsMain: the guard of line 19 always taken.
IsMainAlways == TRUE

\* Line 19: __name__ == "__main__"
IsMain == name = "__main__"

\* Line 19, guard true: go on to line 20.
EnterMain ==
    /\ pc = "line19"
    /\ IsMain
    /\ pc' = "line20"
    /\ UNCHANGED <<name, app, listening, pending, nreq, log>>

\* Line 19, guard false: the module ends; the importer holds app.
EndImport ==
    /\ pc = "line19"
    /\ ~IsMain
    /\ pc' = "end"
    /\ UNCHANGED <<name, app, listening, pending, nreq, log>>

\* Line 20: app.run(debug=True) sets the application's debug flag, which
\* creates the template environment to set its auto_reload, and serves.
Run ==
    /\ pc = "line20"
    /\ app' = [app EXCEPT !.debug = TRUE, !.jinja_env = TRUE]
    /\ listening' = TRUE
    /\ pc' = "serving"
    /\ UNCHANGED <<name, pending, nreq, log>>

\* A request can reach the application through the development server, or,
\* when the module was imported, through whoever imported app.
CanServe == listening \/ pc = "end"

Receive(req, max) ==
    /\ CanServe
    /\ nreq < max
    /\ nreq' = nreq + 1
    /\ pending' = pending \cup {[id |-> nreq + 1, req |-> req]}
    /\ UNCHANGED <<name, pc, app, listening, log>>

\* One pending request is answered; requests are handled concurrently, so
\* any pending one may be next.
Handle(p) ==
    LET result == wsgi_app(app, p.req, StaticFiles)
    IN  /\ app' = result.app
        /\ pending' = pending \ {p}
        /\ log' = Append(log, [req |-> p.req, resp |-> result.resp,
                               ran |-> result.ran])
        /\ UNCHANGED <<name, pc, listening, nreq>>

Next ==
    \/ ImportFlask
    \/ CreateApp
    \/ RegisterHome
    \/ EnterMain
    \/ EndImport
    \/ Run
    \/ \E req \in Requests : Receive(req, MaxRequests)
    \/ \E p \in pending : Handle(p)

Spec == Init /\ [][Next]_vars

\* Longer runs over a sample of the requests: both query strings of GET /,
\* and one request for each other outcome of the dispatch.
NextLong ==
    \/ ImportFlask
    \/ CreateApp
    \/ RegisterHome
    \/ EnterMain
    \/ EndImport
    \/ Run
    \/ \E req \in SampleRequests : Receive(req, MaxLongRequests)
    \/ \E p \in pending : Handle(p)

SpecLong == Init /\ [][NextLong]_vars

---------------------------------------------------------------------------
(* Properties *)

Entries == {log[i] : i \in DOMAIN log}

IsGetRoot(e) == e.req.method = "GET" /\ e.req.path = RootPath

Contains(body, text) == \E i \in DOMAIN body : body[i] = text

\* A path below the built-in static rule, /static/<path:filename>.
UnderStatic(path) == Len(path) >= 2 /\ path[1] = "static"

\* C1: every GET request for "/" runs home and is answered with status
\* 200, wherever it stands among the requests served.
C1_GetRootIs200 ==
    \A e \in Entries : IsGetRoot(e) => e.resp.status = 200 /\ "home" \in e.ran

C1_Witness ==
    \E i \in DOMAIN log :
        /\ i > 1
        /\ ~IsGetRoot(log[i - 1])
        /\ IsGetRoot(log[i])
        /\ log[i].resp.status = 200
        /\ "home" \in log[i].ran

\* C2, as stated: every request for a path other than "/" is answered 404
\* without running home, whatever its method.
C2_OtherPathIs404 ==
    \A e \in Entries :
        e.req.path # RootPath => "home" \notin e.ran /\ e.resp.status = 404

\* C2, amended: no request for a path other than "/" runs home, and every
\* such request for a path outside /static/ is answered 404, whatever its
\* method.
C2_UnroutedPathIs404 ==
    \A e \in Entries :
        e.req.path # RootPath =>
            /\ "home" \notin e.ran
            /\ ~UnderStatic(e.req.path) => e.resp.status = 404

C2_Witness ==
    \E e \in Entries :
        /\ e.req.path = <<"nope">>
        /\ e.req.method = "POST"
        /\ e.resp.status = 404
        /\ e.ran = {}

\* C3, as stated: every request for "/" with a method other than GET is
\* answered with an error response, without running home.
C3_OnlyGetOnRoot ==
    \A e \in Entries :
        e.req.path = RootPath /\ e.req.method # "GET" =>
            /\ e.resp.status >= 400
            /\ "home" \notin e.ran

\* C3, amended: no request for "/" with a method other than GET is answered
\* with the placeholder page.  POST, PUT, DELETE and PATCH are answered 405
\* without running home; HEAD runs home and is answered 200 without a body;
\* OPTIONS is answered 200 with the allowed methods, without running home.
C3_RootMethods ==
    \A e \in Entries :
        e.req.path = RootPath /\ e.req.method # "GET" =>
            /\ e.resp.body # HomeLiteral
            /\ e.req.method \in {"POST", "PUT", "DELETE", "PATCH"} =>
                   /\ e.resp.status = 405
                   /\ "home" \notin e.ran
                   /\ e.resp.allow = {"GET", "HEAD", "OPTIONS"}
            /\ e.req.method = "HEAD" =>
                   /\ e.resp.status = 200
                   /\ "home" \in e.ran
                   /\ e.resp.body = << >>
            /\ e.req.method = "OPTIONS" =>
                   /\ e.resp.status = 200
                   /\ "home" \notin e.ran
                   /\ e.resp.body = << >>
                   /\ e.resp.allow = {"GET", "HEAD", "OPTIONS"}

C3_Witness ==
    \E e \in Entries :
        /\ e.req.path = RootPath
        /\ e.req.method = "DELETE"
        /\ e.resp.status = 405
        /\ e.ran = {}

\* C4: the body of every 200 response to GET "/" contains the strings
\* "Social Contract App" and "Build your features here.".
C4_BodyHasStrings ==
    \A e \in Entries :
        IsGetRoot(e) /\ e.resp.status = 200 =>
            /\ Contains(e.resp.body, "Social Contract App")
            /\ Contains(e.resp.body, "Build your features here.")

C4_Witness ==
    \E e \in Entries :
        /\ IsGetRoot(e)
        /\ e.req.args = "name=x"
        /\ e.resp.status = 200
        /\ Contains(e.resp.body, "Build your features here.")

\* C5: every 200 response to GET "/" has the content type text/html.
C5_ContentTypeHtml ==
    \A e \in Entries :
        IsGetRoot(e) /\ e.resp.status = 200 => e.resp.mimetype = "text/html"

C5_Witness ==
    \E e \in Entries :
        /\ IsGetRoot(e)
        /\ e.req.args = ""
        /\ e.resp.status = 200
        /\ e.resp.mimetype = "text/html"

\* C6: any two responses to GET "/" have the same body, the string literal
\* of home, whatever the query strings and the requests served around them.
C6_SameFixedBody ==
    \A e1, e2 \in Entries :
        IsGetRoot(e1) /\ IsGetRoot(e2) =>
            /\ e1.resp.body = e2.resp.body
            /\ e1.resp.body = HomeLiteral

C6_Witness ==
    \E i, j \in DOMAIN log :
        /\ j = i + 2
        /\ IsGetRoot(log[i]) /\ IsGetRoot(log[j])
        /\ ~IsGetRoot(log[i + 1])
        /\ log[i].req.args # log[j].req.args
        /\ log[i].resp.body = log[j].resp.body

C8_ListenerIffMain ==
    /\ listening <=> (name = "__main__" /\ pc = "serving")
    /\ listening => app.debug
    /\ pc = "end" =>
           /\ name # "__main__"
           /\ ~listening
           /\ ~app.debug
           /\ AppRoutes(app) = {<<RootPath, "home">>}

C8_Witness ==
    /\ name = "__main__"
    /\ listening
    /\ app.debug
    /\ log # << >>

\* C9: whenever a request can be served, the routes the module defined are
\* exactly "/" -> home; requests are only ever served in such states, and
\* no GET "/" is answered 404.
C9_RootBoundWhileServing ==
    /\ CanServe => AppRoutes(app) = {<<RootPath, "home">>}
    /\ (pending # {} \/ log # << >>) => CanServe
    /\ \A e \in Entries : IsGetRoot(e) => e.resp.status # 404

C9_Witness ==
    /\ name = "app.main"
    /\ pc = "end"
    /\ AppRoutes(app) = {<<RootPath, "home">>}
    /\ \E e \in Entries : IsGetRoot(e) /\ e.resp.status = 200

===========================================================================
